---- MODULE Spec2Model ----
(***************************************************************************)
(* Model of the Redmine MCP server's request translation layer:            *)
(*   - fetchRedmine (src/src/utils/redmine-client.ts): one HTTP request    *)
(*     with an AbortController timeout;                                    *)
(*   - the ten tool operations of RedmineMCPServer (src/src/index.ts),     *)
(*     two of which (getProjects, getProjectMemberships) page through a    *)
(*     collection with a do/while loop.                                    *)
(* Every async function is cut at its awaits: an action runs the code from *)
(* one await to the next.  The local variables of one invocation are the   *)
(* fields of that invocation's frame.                                      *)
(***************************************************************************)
EXTENDS Integers, Sequences, FiniteSets, TLC

VARIABLES frames, started, history, errors, validated, validations, target

vars == <<frames, started, history, errors, validated, validations, target>>

(***************************************************************************)
(* Bounds of the model.                                                    *)
(***************************************************************************)
MaxProjects == 250
MaxMembers == 5
MaxLimit == 3
MaxRequests == 8
MaxCalls == 2
MaxConcItems == 3
MaxConcLimit == 2
MaxSubjectLen == 3
MaxUrlLen == 4
MaxValidations == 2

(***************************************************************************)
(* Program constants.                                                      *)
(***************************************************************************)
ProjectsPageLimit == 100
MembershipsDefaultLimit == 100
DefaultPriorityId == 2
DefaultTrackerId == 1
DefaultStatusId == 1
DefaultTimeout == 10000

Procs == {1, 2}

(***************************************************************************)
(* Optional values (undefined / a value) and JavaScript objects.  An       *)
(* object is a function from its property names; {} is the empty function. *)
(***************************************************************************)
None == <<>>
Some(x) == <<x>>
IsSome(o) == Len(o) = 1
Val(o) == o[1]

EmptyObject == [k \in {} |-> 0]
HasField(obj, k) == k \in DOMAIN obj

Min(a, b) == IF a <= b THEN a ELSE b
Max(a, b) == IF a >= b THEN a ELSE b
CeilDiv(a, b) == (a + b - 1) \div b

(***************************************************************************)
(* The client configuration (credential context) handed to                 *)
(* createRedmineClient; it is never assigned after construction.           *)
(***************************************************************************)
config == [baseUrl |-> "https://redmine.example.org",
           apiKey |-> "secret",
           timeout |-> DefaultTimeout]

(***************************************************************************)
(* Errors.  An error is its name and its message, a sequence of string     *)
(* pieces in the order a template literal concatenates them.               *)
(***************************************************************************)
Err(name, message) == [name |-> name, message |-> message]

\* String(error), as `${error}` computes it: name + ": " + message.
ErrorToString(e) == <<e.name, ": ">> \o e.message

\* redmine-client.ts:97
TimeoutError == Err("Error", <<"Request timeout after ", ToString(config.timeout), "ms">>)

\* redmine-client.ts:83
ApiError(status, errorText) ==
    Err("Error", <<"Redmine API error: ", ToString(status), " ", errorText>>)

\* What fetch() rejects with when the connection fails.
FetchFailed == Err("TypeError", <<"fetch failed">>)

\* What fetch() rejects with when its signal is aborted.
AbortError == Err("AbortError", <<"This operation was aborted">>)

\* What response.json() rejects with on a body that is not JSON.
JsonSyntaxError == Err("SyntaxError", <<"Unexpected end of JSON input">>)

(***************************************************************************)
(* Strings that the code inspects are sequences of characters.             *)
(***************************************************************************)
ToLowerChar(c) == CASE c = "A" -> "a" [] c = "B" -> "b" [] OTHER -> c
toLowerCase(s) == [i \in 1..Len(s) |-> ToLowerChar(s[i])]
includes(s, t) == \E i \in 0..(Len(s) - Len(t)) : SubSeq(s, i + 1, i + Len(t)) = t

(***************************************************************************)
(* The remote API.  A collection of n entities is stable during a call and *)
(* a list endpoint serves exactly the requested offset/limit window of it, *)
(* with the true total_count.                                              *)
(***************************************************************************)
ProjectNames == << <<"A">>, <<"A">>, <<"a", "B">>, <<"b">> >>
NameOf(i) == ProjectNames[((i - 1) % Len(ProjectNames)) + 1]
Project(i) == [id |-> i, name |-> NameOf(i)]
Membership(i) == [id |-> i]

Window(n, offset, limit) ==
    LET lo == Max(offset, 0) + 1
        hi == Min(n, offset + limit)
    IN  IF limit <= 0 \/ hi < lo THEN <<>> ELSE [k \in 1..(hi - lo + 1) |-> lo + k - 1]

ProjectsResponse(n, offset, limit) ==
    LET w == Window(n, offset, limit)
    IN  [projects |-> [k \in 1..Len(w) |-> Project(w[k])],
         total_count |-> n, offset |-> offset, limit |-> limit]

MembershipsResponse(n, offset, limit) ==
    LET w == Window(n, offset, limit)
    IN  [memberships |-> [k \in 1..Len(w) |-> Membership(w[k])],
         total_count |-> n, offset |-> offset, limit |-> limit]

ActivityList == << [id |-> 8, name |-> "Design", active |-> TRUE],
                   [id |-> 9, name |-> "Development", active |-> FALSE] >>

\* The JSON body the remote serves for a request.
RemoteJson(req, n) ==
    CASE req.resource = "projects" ->
            ProjectsResponse(n, req.query.offset, req.query.limit)
      [] req.resource = "memberships" ->
            MembershipsResponse(n, req.query.offset, req.query.limit)
      [] req.resource = "project" ->
            [project |-> [id |-> 1, time_entry_activities |-> SubSeq(ActivityList, 1, Min(n, 2))]]
      [] req.resource = "time_entry_activities" ->
            [time_entry_activities |-> SubSeq(ActivityList, 1, Min(n, 2))]
      [] OTHER -> [entity |-> req.resource, count |-> n]

\* The body of a remote that caps the page size at `cap` items, below the
\* requested limit, and reports the true total_count.
CappedMembershipsResponse(n, offset, limit, cap) ==
    MembershipsResponse(n, offset, Min(limit, cap))

\* The same body from a remote that leaves total_count out.
OmitTotalCount(data) == [k \in DOMAIN data \ {"total_count"} |-> data[k]]

HttpErrorStatuses == {401, 404, 500}

(***************************************************************************)
(* Frames: the state of one invocation of a tool operation.                *)
(***************************************************************************)
IdleFrame ==
    [pc |-> "idle", op |-> "none", args |-> EmptyObject, remote |-> 0,
     acc |-> <<>>, offset |-> 0, limit |-> 0, totalCount |-> None,
     fpc |-> "none", timer |-> "none", aborted |-> FALSE, armed |-> 0,
     req |-> None, search |-> EmptyObject, status |-> 0,
     sent |-> <<>>, pages |-> <<>>, totals |-> <<>>,
     result |-> None, error |-> None, raised |-> None, overdue |-> FALSE,
     capped |-> FALSE]

(***************************************************************************)
(* fetchRedmine, redmine-client.ts:43-101.                                 *)
(***************************************************************************)
\* url.searchParams.append(key, String(value)) writes the value in the
\* application/x-www-form-urlencoded form: a blank becomes +, letters and
\* digits stay, the other characters become %XX.
encodeChar(c) ==
    CASE c = " " -> <<"+">>
      [] c = "~" -> <<"%", "7", "E">>
      [] c = "%" -> <<"%", "2", "5">>
      [] c = "+" -> <<"%", "2", "B">>
      [] c = "&" -> <<"%", "2", "6">>
      [] OTHER -> <<c>>

RECURSIVE encode(_)
encode(str) == IF str = <<>> THEN <<>> ELSE encodeChar(Head(str)) \o encode(Tail(str))

\* The value the remote reads back from the query string.
Unescape(hex) ==
    CASE hex = <<"7", "E">> -> <<"~">>
      [] hex = <<"2", "5">> -> <<"%">>
      [] hex = <<"2", "B">> -> <<"+">>
      [] hex = <<"2", "6">> -> <<"&">>
      [] OTHER -> <<"%">> \o hex

RECURSIVE decode(_)
decode(w) ==
    IF w = <<>> THEN <<>>
    ELSE IF Head(w) = "+" THEN <<" ">> \o decode(Tail(w))
    ELSE IF Head(w) = "%" /\ Len(w) >= 3
         THEN Unescape(SubSeq(w, 2, 3)) \o decode(SubSeq(w, 4, Len(w)))
    ELSE <<Head(w)>> \o decode(Tail(w))

\* The query parameters that carry a string of the caller.
StringParams ==
    {"project_id", "status_id", "assigned_to_id", "issue_id", "subject", "parent_id",
     "user_id", "from", "to"}

\* The query string of the request URL, for the caller's string filters
\* (numbers and the fixed strings of the code need no escaping).
searchParams(req) ==
    IF req.method = "GET" /\ req.resource \in {"issues", "time_entries"}
    THEN [k \in DOMAIN req.query \cap StringParams |-> encode(req.query[k])]
    ELSE EmptyObject

\* A faulty variant: one AbortController for the whole client, created once in
\* createRedmineClient; once aborted by a timeout it stays aborted.
ClientControllerAborted(f) == \E i \in 1..Len(history) : history[i] = "timeout"

\* A faulty variant: the timer is never cleared.
clearTimeoutMissing(f) == f

\* const controller = new AbortController(): a fresh, unaborted signal.
NewControllerAborted(f) == FALSE

\* clearTimeout(timeoutId): disarms this call's timer if it is still armed.
clearTimeout(f) ==
    [f EXCEPT !.timer = IF @ = "armed" THEN "cleared" ELSE @,
              !.armed = IF f.timer = "armed" THEN @ - 1 ELSE @]

\* Lines 47-77: build the URL, arm the timer, issue fetch() and suspend.
fetchRedmine(f, req) ==
    [f EXCEPT !.fpc = "headers",
              !.timer = "armed",
              !.armed = @ + 1,
              !.aborted = NewControllerAborted(f),
              !.req = Some(req),
              !.search = searchParams(req),
              !.sent = Append(@, req),
              !.overdue = FALSE]

(***************************************************************************)
(* The response envelope a tool operation returns, and the catch block     *)
(* every tool operation ends with.                                         *)
(***************************************************************************)
Envelope(text) == [content |-> << [type |-> "text", text |-> text] >>]

Return(f, text) ==
    [f EXCEPT !.pc = "returned", !.fpc = "none", !.overdue = FALSE,
              !.result = Some(Envelope(text))]

CatchPrefix(op, args) ==
    CASE op = "getIssues" -> <<"Failed to fetch issues: ">>
      [] op = "getIssueById" ->
            <<"Failed to fetch issue ", ToString(args.issue_id), ": ">>
      [] op = "getProjects" -> <<"Failed to fetch projects: ">>
      [] op = "createIssue" -> <<"Failed to create issue: ">>
      [] op = "updateIssue" -> <<"Failed to update issue: ">>
      [] op = "getTimeEntries" -> <<"Failed to fetch time entries: ">>
      [] op = "getTimeActivities" -> <<"Failed to fetch time activities: ">>
      [] op = "logTime" -> <<"Failed to log time: ">>
      [] op = "getCurrentUser" -> <<"Failed to fetch current user: ">>
      [] op = "getProjectMemberships" -> <<"Failed to fetch project memberships: ">>

\* A faulty variant: the catch block rethrows the error it caught.
WrapErrorRethrow(op, args, e) == e

\* throw new Error(`Failed to ...: ${error}`)
WrapError(op, args, e) == Err("Error", CatchPrefix(op, args) \o ErrorToString(e))

\* catch (error) { console.error(...); throw new Error(...) }
OpCatch(f, e) ==
    [f EXCEPT !.pc = "thrown", !.fpc = "none", !.overdue = FALSE,
              !.raised = Some(e),
              !.error = Some(WrapError(f.op, f.args, e))]

(***************************************************************************)
(* getProjects, index.ts:309-367.                                          *)
(***************************************************************************)
ProjectsRequest(limit, offset) ==
    [method |-> "GET", resource |-> "projects",
     path |-> <<"/projects.json">>,
     query |-> [limit |-> limit, offset |-> offset],
     body |-> None]

\* A faulty variant: the offset is not advanced.
NextOffsetStuck(offset, limit) == offset

\* A faulty variant: the offset lives in a field shared by all invocations.
NextOffsetShared(offset, limit) ==
    LET other == {frames[q].offset : q \in DOMAIN frames}
    IN  (CHOOSE m \in other : \A o \in other : o <= m) + limit

\* A faulty variant: the offset moves one past the page.
NextOffsetSkipsOne(offset, limit) == offset + limit + 1

\* offset += limit
NextOffset(offset, limit) == offset + limit

\* A faulty variant: the loop test is off by one.
LoopAgainOffByOne(len, totalCount) == IsSome(totalCount) /\ len + 1 < Val(totalCount)

\* A faulty variant: an undefined total count does not stop the loop.
LoopAgainUndefinedContinues(len, totalCount) ==
    ~IsSome(totalCount) \/ len < Val(totalCount)

\* A faulty variant: the loop test is <= instead of <.
LoopAgainInclusive(len, totalCount) == IsSome(totalCount) /\ len <= Val(totalCount)

\* while (all.length < totalCount); a comparison with undefined is false.
LoopAgain(len, totalCount) == IsSome(totalCount) /\ len < Val(totalCount)

\* A faulty variant: an entry that exists is not overwritten.
AssignFirstWins(m, later) ==
    [x \in DOMAIN m \cup DOMAIN later |-> IF x \in DOMAIN m THEN m[x] ELSE later[x]]

\* projectMapping[k] = v on top of the assignments m: the later one wins.
Assign(m, later) ==
    [x \in DOMAIN m \cup DOMAIN later |-> IF x \in DOMAIN later THEN later[x] ELSE m[x]]

\* The assignments of the forEach loop over seq[lo..hi], in iteration order
\* (split in halves: the assignments of the second half are the later ones).
RECURSIVE ForEachAssign(_, _, _)
ForEachAssign(seq, lo, hi) ==
    IF lo > hi THEN EmptyObject
    ELSE IF lo = hi THEN [x \in {seq[lo].name} |-> seq[lo].id]
    ELSE LET mid == (lo + hi) \div 2
         IN  Assign(ForEachAssign(seq, lo, mid), ForEachAssign(seq, mid + 1, hi))

\* filteredProjects.forEach(project => projectMapping[project.name] = project.id)
projectMapping(filtered) == ForEachAssign(filtered, 1, Len(filtered))

\* A faulty variant: the project name is compared as it is written.
FilterByNameCaseSensitive(allProjects, searchTerm) ==
    SelectSeq(allProjects, LAMBDA project : includes(project.name, searchTerm))

\* allProjects.filter(project => project.name.toLowerCase().includes(searchTerm))
FilterByName(allProjects, searchTerm) ==
    SelectSeq(allProjects, LAMBDA project : includes(toLowerCase(project.name), searchTerm))

filteredProjects(allProjects, args) ==
    IF HasField(args, "name") /\ args.name # <<>>
    THEN FilterByName(allProjects, toLowerCase(args.name))
    ELSE allProjects

ProjectsResult(f) ==
    LET filtered == filteredProjects(f.acc, f.args)
    IN  [projects |-> projectMapping(filtered),
         total_count |-> Len(filtered),
         total_available |-> f.totalCount]

getProjectsStart(f) ==
    LET g == [f EXCEPT !.acc = <<>>, !.offset = 0,
                       !.limit = ProjectsPageLimit, !.totalCount = Some(0)]
    IN  fetchRedmine(g, ProjectsRequest(g.limit, g.offset))

\* data.total_count: a number, or undefined when the response omits it.
TotalCountOf(data) ==
    IF HasField(data, "total_count") THEN Some(data.total_count) ELSE None

\* The loop body after the await, the loop test, and what follows the loop.
getProjectsPage(f, data) ==
    LET page == IF HasField(data, "projects") THEN data.projects ELSE <<>>
        g == [f EXCEPT !.acc = @ \o page,
                       !.pages = Append(@, Len(page)),
                       !.totals = Append(@, TotalCountOf(data)),
                       !.totalCount = TotalCountOf(data),
                       !.offset = NextOffset(f.offset, f.limit)]
    IN  IF LoopAgain(Len(g.acc), g.totalCount)
        THEN fetchRedmine(g, ProjectsRequest(g.limit, g.offset))
        ELSE Return(g, [json |-> ProjectsResult(g)])

(***************************************************************************)
(* getProjectMemberships, index.ts:679-725.                                *)
(***************************************************************************)
MembershipsRequest(project_id, limit, offset) ==
    [method |-> "GET", resource |-> "memberships",
     path |-> <<"/projects/", project_id, "/memberships.json">>,
     query |-> [limit |-> limit, offset |-> offset],
     body |-> None]

\* const limit = args.limit ?? 100
MembershipsLimit(args) ==
    IF HasField(args, "limit") THEN args.limit ELSE MembershipsDefaultLimit

getProjectMembershipsStart(f) ==
    LET g == [f EXCEPT !.acc = <<>>, !.offset = 0,
                       !.limit = MembershipsLimit(f.args), !.totalCount = Some(0)]
    IN  fetchRedmine(g, MembershipsRequest(g.args.project_id, g.limit, g.offset))

getProjectMembershipsPage(f, data) ==
    LET page == IF HasField(data, "memberships") THEN data.memberships ELSE <<>>
        acc2 == f.acc \o page
        g == [f EXCEPT !.acc = acc2,
                       !.pages = Append(@, Len(page)),
                       !.totals = Append(@, TotalCountOf(data)),
                       !.totalCount = IF IsSome(TotalCountOf(data))
                                      THEN TotalCountOf(data) ELSE Some(Len(acc2)),
                       !.offset = NextOffset(f.offset, f.limit)]
    IN  IF LoopAgain(Len(g.acc), g.totalCount)
        THEN fetchRedmine(g, MembershipsRequest(g.args.project_id, g.limit, g.offset))
        ELSE Return(g, [json |-> [memberships |-> g.acc,
                                  total_count |-> Len(g.acc),
                                  project_id |-> g.args.project_id]])

(***************************************************************************)
(* Truthiness of an optional argument, as `if (args.x)` tests it: present  *)
(* and neither the empty string nor 0.                                     *)
(***************************************************************************)
TruthyStr(args, k) == HasField(args, k) /\ args[k] # <<>>
TruthyNum(args, k) == HasField(args, k) /\ args[k] # 0

\* parseInt(s, 10): optional blanks, an optional sign, then the leading
\* digits; NaN (None) when there is no digit.
Digits == <<"0", "1", "2", "3", "4", "5", "6", "7", "8", "9">>
IsDigit(c) == \E d \in 1..Len(Digits) : Digits[d] = c
DigitVal(c) == (CHOOSE d \in 1..Len(Digits) : Digits[d] = c) - 1

RECURSIVE SkipBlanks(_)
SkipBlanks(s) == IF s # <<>> /\ Head(s) = " " THEN SkipBlanks(Tail(s)) ELSE s

RECURSIVE ParseDigits(_, _)
ParseDigits(s, v) ==
    IF s # <<>> /\ IsDigit(Head(s))
    THEN ParseDigits(Tail(s), v * 10 + DigitVal(Head(s)))
    ELSE v

parseInt(str) ==
    LET t == SkipBlanks(str)
        neg == t # <<>> /\ Head(t) = "-"
        u == IF t # <<>> /\ Head(t) \in {"-", "+"} THEN Tail(t) ELSE t
    IN  IF u # <<>> /\ IsDigit(Head(u))
        THEN Some(IF neg THEN 0 - ParseDigits(u, 0) ELSE ParseDigits(u, 0))
        ELSE None

(***************************************************************************)
(* The single-request operations: what each checks before its request,     *)
(* the request it builds, and the text it returns.                         *)
(***************************************************************************)
\* The optional filter fields the argument schemas declare (schemas.ts).
getIssuesSchemaShape ==
    {"project_id", "status_id", "assigned_to_id", "limit", "issue_id", "subject", "parent_id"}
getTimeEntriesSchemaShape ==
    {"project_id", "issue_id", "user_id", "activity_id", "from", "to", "spent_on", "limit"}

\* A faulty variant: the subject filter is lower-cased.
getIssuesParamsLower(args) ==
    LET strs == {k \in {"project_id", "status_id", "assigned_to_id", "issue_id", "parent_id"} :
                    TruthyStr(args, k)}
        nums == {k \in {"limit"} : TruthyNum(args, k)}
        subj == {k \in {"subject"} : TruthyStr(args, k)}
    IN  [k \in strs \cup nums \cup subj \cup {"sort"} |->
            CASE k = "subject" -> <<"~">> \o toLowerCase(args.subject)
              [] k = "sort" -> "priority:desc,updated_on:desc"
              [] OTHER -> args[k]]

\* getIssues, index.ts:244-255
getIssuesParams(args) ==
    LET strs == {k \in {"project_id", "status_id", "assigned_to_id", "issue_id", "parent_id"} :
                    TruthyStr(args, k)}
        nums == {k \in {"limit"} : TruthyNum(args, k)}
        subj == {k \in {"subject"} : TruthyStr(args, k)}
    IN  [k \in strs \cup nums \cup subj \cup {"sort"} |->
            CASE k = "subject" -> <<"~">> \o args.subject
              [] k = "sort" -> "priority:desc,updated_on:desc"
              [] OTHER -> args[k]]

\* getTimeEntries, index.ts:491-498
getTimeEntriesParams(args) ==
    LET strs == {k \in {"project_id", "issue_id", "user_id", "from", "to"} :
                    TruthyStr(args, k)}
        nums == {k \in {"limit"} : TruthyNum(args, k)}
    IN  [k \in strs \cup nums |-> args[k]]

\* getCurrentUser, index.ts:649-652
getCurrentUserParams(args) ==
    [k \in {k \in {"include"} : TruthyStr(args, k)} |-> args[k]]

\* A faulty variant: the defaults are applied with || instead of ??, so a
\* supplied 0 is replaced too.
createIssueDataOr(args) ==
    LET strs == {k \in {"description"} : TruthyStr(args, k)}
        nums == {k \in {"assigned_to_id", "parent_issue_id"} : TruthyNum(args, k)}
    IN  [k \in {"project_id", "subject", "priority_id", "tracker_id", "status_id"}
                \cup strs \cup nums |->
            CASE k = "project_id" -> parseInt(args.project_id)
              [] k = "priority_id" ->
                    IF TruthyNum(args, k) THEN args[k] ELSE DefaultPriorityId
              [] k = "tracker_id" ->
                    IF TruthyNum(args, k) THEN args[k] ELSE DefaultTrackerId
              [] k = "status_id" ->
                    IF TruthyNum(args, k) THEN args[k] ELSE DefaultStatusId
              [] OTHER -> args[k]]

\* createIssue, index.ts:384-394
createIssueData(args) ==
    LET strs == {k \in {"description"} : TruthyStr(args, k)}
        nums == {k \in {"assigned_to_id", "parent_issue_id"} : TruthyNum(args, k)}
    IN  [k \in {"project_id", "subject", "priority_id", "tracker_id", "status_id"}
                \cup strs \cup nums |->
            CASE k = "project_id" -> parseInt(args.project_id)
              [] k = "priority_id" ->
                    IF HasField(args, k) THEN args[k] ELSE DefaultPriorityId
              [] k = "tracker_id" ->
                    IF HasField(args, k) THEN args[k] ELSE DefaultTrackerId
              [] k = "status_id" ->
                    IF HasField(args, k) THEN args[k] ELSE DefaultStatusId
              [] OTHER -> args[k]]

\* The fields of the update_issue argument schema, schemas.ts:86-110.
updateIssueSchemaShape ==
    {"issue_id", "subject", "description", "priority_id", "assigned_to_id", "tracker_id",
     "category_id", "fixed_version_id", "start_date", "due_date", "estimated_hours",
     "done_ratio", "parent_issue_id", "status_id", "notes", "custom_fields"}

\* updateIssue, index.ts:438-454
updateIssueData(args) ==
    LET strs == {k \in {"subject", "description", "notes", "start_date", "due_date"} :
                    TruthyStr(args, k)}
        nums == {k \in {"priority_id", "assigned_to_id", "status_id", "tracker_id",
                        "category_id", "fixed_version_id", "estimated_hours",
                        "parent_issue_id"} : TruthyNum(args, k)}
        done == {k \in {"done_ratio"} : HasField(args, k)}
    IN  [k \in strs \cup nums \cup done |-> args[k]]

\* logTime, index.ts:606-614
logTimeData(args) ==
    LET strs == {k \in {"comments", "spent_on"} : TruthyStr(args, k)}
        nums == {k \in {"issue_id", "project_id"} : TruthyNum(args, k)}
    IN  [k \in {"hours", "activity_id"} \cup strs \cup nums |-> args[k]]

HoursRequired == Err("Error", <<"hours is required">>)
ActivityRequired ==
    Err("Error", <<"activity_id is required. Use get_time_activities tool to get valid activity IDs for the project.">>)
ReferenceRequired == Err("Error", <<"Either issue_id or project_id must be provided">>)

\* A faulty variant: logTime does not check for an issue or project reference.
ValidateWithoutReference(op, args) ==
    CASE op = "updateIssue" /\ ~TruthyNum(args, "issue_id") ->
            Some(Err("Error", <<"issue_id is required">>))
      [] op = "logTime" /\ ~TruthyNum(args, "hours") -> Some(HoursRequired)
      [] op = "logTime" /\ TruthyNum(args, "hours") /\ ~TruthyNum(args, "activity_id") ->
            Some(ActivityRequired)
      [] OTHER -> None

\* The checks an operation makes before it builds its request: the error it
\* throws, or None.
Validate(op, args) ==
    CASE op = "updateIssue" /\ ~TruthyNum(args, "issue_id") ->
            Some(Err("Error", <<"issue_id is required">>))
      [] op = "logTime" /\ ~TruthyNum(args, "hours") -> Some(HoursRequired)
      [] op = "logTime" /\ TruthyNum(args, "hours") /\ ~TruthyNum(args, "activity_id") ->
            Some(ActivityRequired)
      [] op = "logTime" /\ TruthyNum(args, "hours") /\ TruthyNum(args, "activity_id")
            /\ ~HasField(logTimeData(args), "issue_id")
            /\ ~HasField(logTimeData(args), "project_id") ->
            Some(ReferenceRequired)
      [] OTHER -> None

BuildRequest(op, args) ==
    CASE op = "getIssues" ->
            [method |-> "GET", resource |-> "issues", path |-> <<"/issues.json">>,
             query |-> getIssuesParams(args), body |-> None]
      [] op = "getIssueById" ->
            [method |-> "GET", resource |-> "issue",
             path |-> <<"/issues/", ToString(args.issue_id), ".json">>,
             query |-> EmptyObject, body |-> None]
      [] op = "createIssue" ->
            [method |-> "POST", resource |-> "issues", path |-> <<"/issues.json">>,
             query |-> EmptyObject, body |-> Some([issue |-> createIssueData(args)])]
      [] op = "updateIssue" ->
            [method |-> "PUT", resource |-> "issue",
             path |-> <<"/issues/", ToString(args.issue_id), ".json">>,
             query |-> EmptyObject, body |-> Some([issue |-> updateIssueData(args)])]
      [] op = "getTimeEntries" ->
            [method |-> "GET", resource |-> "time_entries",
             path |-> <<"/time_entries.json">>,
             query |-> getTimeEntriesParams(args), body |-> None]
      [] op = "getTimeActivities" /\ TruthyNum(args, "project_id") ->
            [method |-> "GET", resource |-> "project",
             path |-> <<"/projects/", ToString(args.project_id), ".json">>,
             query |-> [include |-> "time_entry_activities"], body |-> None]
      [] op = "getTimeActivities" /\ ~TruthyNum(args, "project_id") ->
            [method |-> "GET", resource |-> "time_entry_activities",
             path |-> <<"/enumerations/time_entry_activities.json">>,
             query |-> EmptyObject, body |-> None]
      [] op = "logTime" ->
            [method |-> "POST", resource |-> "time_entries",
             path |-> <<"/time_entries.json">>,
             query |-> EmptyObject, body |-> Some([time_entry |-> logTimeData(args)])]
      [] op = "getCurrentUser" ->
            [method |-> "GET", resource |-> "current_user",
             path |-> <<"/users/current.json">>,
             query |-> getCurrentUserParams(args), body |-> None]

\* What the code after the await throws on the data it got, or None.
\* getTimeActivities reads data.project.time_entry_activities (index.ts:532).
DataError(op, args, data) ==
    IF op = "getTimeActivities" /\ TruthyNum(args, "project_id") /\ ~HasField(data, "project")
    THEN Some(Err("TypeError",
                  <<"Cannot read properties of undefined (reading 'time_entry_activities')">>))
    ELSE None

ActivitiesOf(obj) ==
    IF HasField(obj, "time_entry_activities") THEN obj.time_entry_activities ELSE <<>>

ResultText(op, args, data) ==
    CASE op = "createIssue" -> [prefix |-> "Issue created successfully: ", json |-> data]
      [] op = "updateIssue" -> [prefix |-> "Issue updated successfully: ", json |-> data]
      [] op = "logTime" -> [prefix |-> "Time logged successfully: ", json |-> data]
      [] op = "getTimeActivities" /\ TruthyNum(args, "project_id") ->
            [prefix |-> "Project-specific time tracking activities for project ",
             lines |-> ActivitiesOf(data.project),
             total |-> Len(ActivitiesOf(data.project))]
      [] op = "getTimeActivities" /\ ~TruthyNum(args, "project_id") ->
            [prefix |-> "Global time tracking activities:",
             lines |-> ActivitiesOf(data),
             total |-> Len(ActivitiesOf(data))]
      [] OTHER -> [json |-> data]

ListOps == {"getProjects", "getProjectMemberships"}
SimpleOps == {"getIssues", "getIssueById", "createIssue", "updateIssue",
              "getTimeEntries", "getTimeActivities", "logTime", "getCurrentUser"}
Ops == ListOps \cup SimpleOps

(***************************************************************************)
(* A tool operation from its entry to its first await.                     *)
(***************************************************************************)
StartOp(f, op, args, n) ==
    LET g == [IdleFrame EXCEPT !.pc = "await", !.op = op, !.args = args, !.remote = n]
    IN  CASE op = "getProjects" -> getProjectsStart(g)
          [] op = "getProjectMemberships" -> getProjectMembershipsStart(g)
          [] OTHER ->
                IF IsSome(Validate(op, args))
                THEN OpCatch(g, Val(Validate(op, args)))
                ELSE fetchRedmine(g, BuildRequest(op, args))

\* A tool operation from the await that delivered `data` to its next await
\* or to its end.
OnData(f, data) ==
    CASE f.op = "getProjects" -> getProjectsPage(f, data)
      [] f.op = "getProjectMemberships" -> getProjectMembershipsPage(f, data)
      [] OTHER ->
            IF IsSome(DataError(f.op, f.args, data))
            THEN OpCatch(f, Val(DataError(f.op, f.args, data)))
            ELSE Return(f, ResultText(f.op, f.args, data))

\* A faulty variant: a failed request is issued again.
FetchCatchRetry(f, error) == fetchRedmine(clearTimeout(f), Val(f.req))

\* fetchRedmine's catch block, redmine-client.ts:94-100, then the caller's.
FetchCatch(f, error) ==
    LET g == clearTimeout(f)
    IN  IF error.name = "AbortError" THEN OpCatch(g, TimeoutError) ELSE OpCatch(g, error)

(***************************************************************************)
(* The arguments the operations are called with.                           *)
(***************************************************************************)
SubjectChars == {"A", "b", " ", "~", "%", "7", "E"}

\* The strings over chars of length 0..n.
RECURSIVE StringsOver(_, _)
StringsOver(chars, n) ==
    IF n = 0 THEN {<<>>}
    ELSE LET shorter == StringsOver(chars, n - 1)
         IN  shorter \cup {Append(t, c) : t \in shorter, c \in chars}

StringsUpTo(n) == StringsOver(SubjectChars, n)

ArgsOf(op) ==
    CASE op = "getProjects" ->
            {EmptyObject, [name |-> <<"a">>], [limit |-> MaxLimit],
             [name |-> <<"A", "b">>, limit |-> 1],
             [name |-> <<"B">>], [name |-> <<"z">>], [name |-> <<>>]}
      [] op = "getProjectMemberships" ->
            {[project_id |-> "e2e"]} \cup
            {[project_id |-> "e2e", limit |-> l] : l \in (0 - 1)..MaxLimit}
      [] op = "getIssues" ->
            {EmptyObject,
             [project_id |-> <<"1">>, subject |-> <<"f", "o", "o">>, limit |-> 5],
             [subject |-> <<>>, limit |-> 0, status_id |-> <<"o", "p", "e", "n">>],
             [assigned_to_id |-> <<"m", "e">>, issue_id |-> <<"7">>, parent_id |-> <<"4">>,
              subject |-> <<"~", "A", " ", "b">>]}
            \cup {[subject |-> t] : t \in StringsUpTo(MaxSubjectLen)}
      [] op = "getIssueById" -> {[issue_id |-> 7]}
      [] op = "createIssue" ->
            {[project_id |-> <<"1">>, subject |-> <<"s">>],
             [project_id |-> <<"1", "2">>, subject |-> <<"s">>, priority_id |-> 4,
              description |-> <<"d">>, assigned_to_id |-> 3],
             [project_id |-> <<"x">>, subject |-> <<"s">>, tracker_id |-> 0],
             [project_id |-> <<"7", "b">>, subject |-> <<"s">>, status_id |-> 5],
             [project_id |-> <<"1">>, subject |-> <<"s">>, priority_id |-> 0, status_id |-> 5],
             [project_id |-> <<"1">>, subject |-> <<"s">>, priority_id |-> 2, tracker_id |-> 3,
              status_id |-> 0, description |-> <<>>, parent_issue_id |-> 6]}
      [] op = "updateIssue" ->
            {[issue_id |-> 7, subject |-> <<"s">>],
             [issue_id |-> 0, subject |-> <<"s">>],
             [issue_id |-> 7, done_ratio |-> 0, status_id |-> 3, notes |-> <<>>],
             [issue_id |-> 7, estimated_hours |-> 0, priority_id |-> 4],
             [issue_id |-> 7, start_date |-> <<"d">>,
              custom_fields |-> << [id |-> 1, value |-> <<"v">>] >>]}
      [] op = "getTimeEntries" ->
            {EmptyObject, [project_id |-> <<"1">>, from |-> <<"2", "0">>, limit |-> 5],
             [issue_id |-> <<"7">>, user_id |-> <<"3">>, to |-> <<"2", "1">>],
             [activity_id |-> <<"8">>],
             [project_id |-> <<"1">>, spent_on |-> <<"2", "0">>, limit |-> 0]}
      [] op = "getTimeActivities" -> {EmptyObject, [project_id |-> 3]}
      [] op = "logTime" ->
            {[hours |-> 2, activity_id |-> 8, issue_id |-> 7],
             [hours |-> 2, activity_id |-> 8],
             [hours |-> 0, activity_id |-> 8, issue_id |-> 7],
             [hours |-> 2, activity_id |-> 0, project_id |-> 3],
             [hours |-> 2, activity_id |-> 8, project_id |-> 3, comments |-> <<"c">>]}
            \cup {[hours |-> h, activity_id |-> a] : h \in 0..2, a \in {0, 8, 9}}
            \cup {[hours |-> h, activity_id |-> 9, spent_on |-> <<"2", "0">>] : h \in 0..2}
      [] op = "getCurrentUser" -> {EmptyObject, [include |-> <<"m">>]}

\* The sizes of the collection a call reads.
SizesOf(op) ==
    CASE op = "getProjects" -> 0..MaxProjects
      [] op = "getProjectMemberships" -> 0..MaxMembers
      [] OTHER -> 0..2

(***************************************************************************)
(* ConfigValidator, config/server-config.ts:27-129.  `errors` is its static *)
(* error list; the private helpers push to it, which is modelled by         *)
(* threading the list through them.                                         *)
(***************************************************************************)
RECURSIVE trimStart(_)
trimStart(str) == IF str # <<>> /\ Head(str) = " " THEN trimStart(Tail(str)) ELSE str

RECURSIVE trimEnd(_)
trimEnd(str) ==
    IF str # <<>> /\ str[Len(str)] = " " THEN trimEnd(SubSeq(str, 1, Len(str) - 1)) ELSE str

\* String.prototype.trim()
trim(str) == trimEnd(trimStart(str))

ConfigValidationError(field, message) == [field |-> field, message |-> message]

\* A faulty variant: a value of blanks passes as present.
validateRequiredNoTrim(value, fieldName, errs) ==
    IF ~IsSome(value) \/ Val(value) = <<>>
    THEN [value |-> <<>>,
          errors |-> Append(errs, ConfigValidationError(fieldName,
                                                        "is required and cannot be empty"))]
    ELSE [value |-> trim(Val(value)), errors |-> errs]

\* validateRequired(value, fieldName): the value it returns and the error list.
validateRequired(value, fieldName, errs) ==
    IF ~IsSome(value) \/ Val(value) = <<>> \/ trim(Val(value)) = <<>>
    THEN [value |-> <<>>,
          errors |-> Append(errs, ConfigValidationError(fieldName,
                                                        "is required and cannot be empty"))]
    ELSE [value |-> trim(Val(value)), errors |-> errs]

\* parseTimeout(value)
parseTimeout(value, errs) ==
    IF ~IsSome(value) \/ Val(value) = <<>>
    THEN [value |-> DefaultTimeout, errors |-> errs]
    ELSE LET parsed == parseInt(Val(value))
         IN  IF ~IsSome(parsed) \/ Val(parsed) <= 0
             THEN [value |-> DefaultTimeout,
                   errors |-> Append(errs, ConfigValidationError("REDMINE_TIMEOUT",
                                                                 "must be a positive number"))]
             ELSE [value |-> Val(parsed), errors |-> errs]

\* URLs are written with "o" for a scheme and the start of an authority
\* (such as https://host), "p" for a character of a host or path, "/" and
\* the blank.  new URL(str) succeeds when str is an absolute URL: it starts
\* with "o" and has no blank in its host, that is, before its first "/".
IsValidUrl(str) ==
    /\ str # <<>>
    /\ str[1] = "o"
    /\ \A i \in 2..Len(str) : str[i] = " " => \E j \in 2..(i - 1) : str[j] = "/"

\* url.replace(/\/$/, "")
removeTrailingSlash(url) ==
    IF url # <<>> /\ url[Len(url)] = "/" THEN SubSeq(url, 1, Len(url) - 1) ELSE url

\* normalizeUrl(url)
normalizeUrl(url, errs) ==
    IF url = <<>> THEN [value |-> <<>>, errors |-> errs]
    ELSE LET normalized == removeTrailingSlash(url)
         IN  IF IsValidUrl(normalized)
             THEN [value |-> normalized, errors |-> errs]
             ELSE [value |-> url,
                   errors |-> Append(errs, ConfigValidationError("REDMINE_URL",
                                                                 "must be a valid URL"))]

\* this.errors.map(err => `${err.field}: ${err.message}`).join("\n")
RECURSIVE errorMessages(_)
errorMessages(errs) ==
    IF errs = <<>> THEN <<>>
    ELSE <<Head(errs).field, ": ", Head(errs).message>>
         \o (IF Len(errs) > 1 THEN <<"\n">> ELSE <<>>)
         \o errorMessages(Tail(errs))

\* A faulty variant: the error list is not emptied on entry.
resetErrorsMissing(errs) == errs

\* this.errors = []
resetErrors(errs) == <<>>

\* validate(envVars), on the error list errs it finds: what it returns or
\* throws, and the error list it leaves.
validateFrom(envVars, errs) ==
    LET redmineUrl == validateRequired(envVars.REDMINE_URL, "REDMINE_URL",
                                       resetErrors(errs))
        redmineApiKey == validateRequired(envVars.REDMINE_API_KEY, "REDMINE_API_KEY",
                                          redmineUrl.errors)
        timeout == parseTimeout(envVars.REDMINE_TIMEOUT, redmineApiKey.errors)
        url == normalizeUrl(redmineUrl.value, timeout.errors)
    IN  IF Len(timeout.errors) > 0
        THEN [kind |-> "thrown",
              config |-> None,
              error |-> Some(Err("Error", <<"Configuration validation failed", ":\n">>
                                           \o errorMessages(timeout.errors))),
              errors |-> timeout.errors]
        ELSE [kind |-> "returned",
              config |-> Some([redmine |-> [url |-> url.value,
                                            apiKey |-> redmineApiKey.value,
                                            timeout |-> timeout.value],
                               server |-> [name |-> "redmine-mcp-server",
                                           version |-> "0.1.0"]]),
              error |-> None,
              errors |-> url.errors]

validate(envVars) == validateFrom(envVars, errors)

\* The environments validate is called with.
UrlChars == {"o", "/", "p", " "}

EnvVars ==
    [REDMINE_URL : {None} \cup {Some(t) : t \in StringsOver(UrlChars, MaxUrlLen)},
     REDMINE_API_KEY : {None, Some(<<>>), Some(<<" ">>), Some(<<"k">>),
                        Some(<<" ", "k", " ">>)},
     REDMINE_TIMEOUT : {None, Some(<<>>), Some(<<" ">>), Some(<<"0">>), Some(<<"-", "5">>),
                        Some(<<"x">>), Some(<<"5">>), Some(<<"2", "0", "x">>)}]

\* The environments of the calls that another call follows: one that
\* succeeds, one that fails, one that records an error after the error
\* check, one with a bad timeout.
EarlierEnvVars ==
    {[REDMINE_URL |-> Some(<<"o", "/", "p", "/">>), REDMINE_API_KEY |-> Some(<<"k">>),
      REDMINE_TIMEOUT |-> Some(<<"5">>)],
     [REDMINE_URL |-> None, REDMINE_API_KEY |-> Some(<<"k">>), REDMINE_TIMEOUT |-> None],
     [REDMINE_URL |-> Some(<<"p">>), REDMINE_API_KEY |-> Some(<<"k">>),
      REDMINE_TIMEOUT |-> None],
     [REDMINE_URL |-> Some(<<"o">>), REDMINE_API_KEY |-> Some(<<" ">>),
      REDMINE_TIMEOUT |-> Some(<<"x">>)]}

\* The paths the operations pass to fetchRedmine: each starts with a slash
\* ("i" is a character of such a path).
RequestPaths == {<<"/", "i">>, <<"/", "i", "/", "i">>}

\* The part of a URL before its path: up to its first slash.
Origin(url) ==
    LET slashes == {i \in 2..Len(url) : url[i] = "/"}
    IN  IF slashes = {} THEN url
        ELSE SubSeq(url, 1, (CHOOSE i \in slashes : \A j \in slashes : i <= j) - 1)

\* new URL(path, baseUrl) for a path that starts with a slash: the path
\* replaces the whole path of the base; undefined (a TypeError) when the
\* base is not a valid URL.
NewURL(path, baseUrl) ==
    IF IsValidUrl(baseUrl) THEN Some(Origin(baseUrl) \o path) ELSE None

(***************************************************************************)
(* Actions.                                                                *)
(***************************************************************************)
\* ConfigValidator.validate(envVars) runs from entry to return or throw.
ValidateCall ==
    /\ validations < MaxValidations
    /\ validated # None => Val(validated).envVars \in EarlierEnvVars
    /\ \E envVars \in EnvVars :
          LET r == validate(envVars)
          IN  /\ errors' = r.errors
              /\ validated' = Some([envVars |-> envVars, before |-> errors,
                                    kind |-> r.kind,
                                    config |-> r.config, error |-> r.error])
    /\ validations' = validations + 1
    /\ target' = None
    /\ UNCHANGED <<frames, started, history>>

\* fetchRedmine builds the URL of a request (redmine-client.ts:50) on the
\* configuration validate returned.
BuildTarget ==
    /\ validated # None
    /\ Val(validated).kind = "returned"
    /\ target = None
    /\ \E path \in RequestPaths :
          LET baseUrl == Val(Val(validated).config).redmine.url
          IN  target' = Some([baseUrl |-> baseUrl, path |-> path,
                              url |-> NewURL(path, baseUrl)])
    /\ UNCHANGED <<frames, started, history, errors, validated, validations>>

Put(p, f) == frames' = [frames EXCEPT ![p] = f]

\* A caller invokes a tool operation; it runs to its first await.
Call(p) ==
    /\ frames[p].pc = "idle"
    /\ started < MaxCalls
    /\ \E op \in Ops : \E args \in ArgsOf(op) : \E n \in SizesOf(op) :
            Put(p, StartOp(frames[p], op, args, n))
    /\ started' = started + 1
    /\ UNCHANGED <<history, errors, validated, validations, target>>

\* The response headers arrive with a success status and a JSON content
\* type: redmine-client.ts:77-89, up to `await response.json()`.
RespondOk(p) ==
    LET f == frames[p]
    IN  /\ f.pc = "await" /\ f.fpc = "headers" /\ ~f.aborted
        /\ Put(p, [clearTimeout(f) EXCEPT !.fpc = "body", !.status = 200])
        /\ UNCHANGED <<started, history, errors, validated, validations, target>>

\* A success status without a JSON content type: fetchRedmine returns {}.
RespondNoContent(p) ==
    LET f == frames[p]
    IN  /\ f.pc = "await" /\ f.fpc = "headers" /\ ~f.aborted
        /\ Put(p, OnData([clearTimeout(f) EXCEPT !.status = 204], EmptyObject))
        /\ UNCHANGED <<started, history, errors, validated, validations, target>>

\* A non-success status: redmine-client.ts:81-82, up to `await response.text()`.
RespondNotOk(p) ==
    LET f == frames[p]
    IN  /\ f.pc = "await" /\ f.fpc = "headers" /\ ~f.aborted
        /\ \E status \in HttpErrorStatuses :
                Put(p, [clearTimeout(f) EXCEPT !.fpc = "errtext", !.status = status])
        /\ UNCHANGED <<started, history, errors, validated, validations, target>>

\* response.text() settles; line 83 throws inside the try block.
ErrorTextRead(p) ==
    LET f == frames[p]
    IN  /\ f.pc = "await" /\ f.fpc = "errtext"
        /\ \E errorText \in {"body", "statusText"} :
                Put(p, FetchCatch(f, ApiError(f.status, errorText)))
        /\ UNCHANGED <<started, history, errors, validated, validations, target>>

\* response.json() resolves: fetchRedmine returns the data and the
\* operation runs on.
BodyJson(p) ==
    LET f == frames[p]
        next == OnData(f, RemoteJson(Val(f.req), f.remote))
    IN  /\ f.pc = "await" /\ f.fpc = "body"
        /\ Len(next.sent) <= MaxRequests
        /\ Put(p, next)
        /\ UNCHANGED <<started, history, errors, validated, validations, target>>

\* response.json() resolves with a page that carries no total_count.
BodyJsonNoTotal(p) ==
    LET f == frames[p]
        next == OnData(f, OmitTotalCount(RemoteJson(Val(f.req), f.remote)))
    IN  /\ f.pc = "await" /\ f.fpc = "body" /\ f.op \in ListOps
        /\ Len(next.sent) <= MaxRequests
        /\ Put(p, next)
        /\ UNCHANGED <<started, history, errors, validated, validations, target>>

\* response.json() resolves with a page of getProjectMemberships that the
\* remote cut below the requested limit although more items follow it.
BodyJsonCapped(p) ==
    LET f == frames[p]
    IN  /\ f.pc = "await" /\ f.fpc = "body" /\ f.op = "getProjectMemberships"
        /\ \E cap \in 1..(f.limit - 1) :
              LET q == Val(f.req).query
                  next == OnData([f EXCEPT !.capped = TRUE],
                                 CappedMembershipsResponse(f.remote, q.offset, q.limit, cap))
              IN  /\ q.offset >= 0 /\ q.offset + cap < f.remote
                  /\ Len(next.sent) <= MaxRequests
                  /\ Put(p, next)
        /\ UNCHANGED <<started, history, errors, validated, validations, target>>

\* response.json() rejects.
BodyFail(p) ==
    LET f == frames[p]
    IN  /\ f.pc = "await" /\ f.fpc = "body"
        /\ Put(p, FetchCatch(f, JsonSyntaxError))
        /\ UNCHANGED <<started, history, errors, validated, validations, target>>

\* fetch() rejects: the connection failed.
NetworkError(p) ==
    LET f == frames[p]
    IN  /\ f.pc = "await" /\ f.fpc = "headers" /\ ~f.aborted
        /\ Put(p, FetchCatch(f, FetchFailed))
        /\ UNCHANGED <<started, history, errors, validated, validations, target>>

\* The timer callback of redmine-client.ts:59 runs: controller.abort().
TimerFires(p) ==
    LET f == frames[p]
    IN  /\ f.pc = "await" /\ f.timer = "armed"
        /\ Put(p, [f EXCEPT !.timer = "fired", !.armed = @ - 1, !.aborted = TRUE])
        /\ UNCHANGED <<started, history, errors, validated, validations, target>>

\* fetch() rejects with AbortError because its signal is aborted.
AbortDelivered(p) ==
    LET f == frames[p]
    IN  /\ f.pc = "await" /\ f.fpc = "headers" /\ f.aborted
        /\ Put(p, FetchCatch(f, AbortError))
        /\ UNCHANGED <<started, history, errors, validated, validations, target>>

\* The timeout period of the call ends while the response body is still
\* being read: the timer was cleared at redmine-client.ts:79, so nothing runs.
DeadlinePasses(p) ==
    LET f == frames[p]
    IN  /\ f.pc = "await" /\ f.fpc \in {"body", "errtext"}
        /\ f.timer = "cleared" /\ ~f.overdue
        /\ Put(p, [f EXCEPT !.overdue = TRUE])
        /\ UNCHANGED <<started, history, errors, validated, validations, target>>

Outcome(f) ==
    IF f.pc = "returned" THEN "returned"
    ELSE IF f.raised = Some(TimeoutError) THEN "timeout" ELSE "error"

\* The caller has the outcome; the invocation's locals are gone.
Finish(p) ==
    LET f == frames[p]
    IN  /\ f.pc \in {"returned", "thrown"}
        /\ started < MaxCalls
        /\ Put(p, IdleFrame)
        /\ history' = Append(history, Outcome(f))
        /\ UNCHANGED <<started, errors, validated, validations, target>>

Init ==
    /\ frames = [p \in Procs |-> IdleFrame]
    /\ started = 0
    /\ history = <<>>
    /\ errors = <<>>
    /\ validated = None
    /\ validations = 0
    /\ target = None

Step(p) ==
    \/ RespondOk(p)
    \/ RespondNoContent(p)
    \/ RespondNotOk(p)
    \/ ErrorTextRead(p)
    \/ BodyJson(p)
    \/ BodyJsonNoTotal(p)
    \/ BodyJsonCapped(p)
    \/ BodyFail(p)
    \/ NetworkError(p)
    \/ TimerFires(p)
    \/ AbortDelivered(p)
    \/ DeadlinePasses(p)
    \/ Finish(p)

\* One caller, one invocation at a time.
Next == Call(1) \/ Step(1)

Spec == Init /\ [][Next]_vars

(***************************************************************************)
(* Two callers with invocations in flight at the same time, on the same    *)
(* client.                                                                 *)
(***************************************************************************)
ConcArgsOf(op) ==
    CASE op = "getProjects" -> {EmptyObject}
      [] op = "getProjectMemberships" ->
            {[project_id |-> "e2e", limit |-> l] : l \in 1..MaxConcLimit}

CallList(p) ==
    /\ frames[p].pc = "idle"
    /\ started < MaxCalls
    /\ \E op \in ListOps : \E args \in ConcArgsOf(op) : \E n \in 0..MaxConcItems :
            Put(p, StartOp(frames[p], op, args, n))
    /\ started' = started + 1
    /\ UNCHANGED <<history, errors, validated, validations, target>>

NextConc == \E p \in Procs : CallList(p) \/ Step(p)

SpecConc == Init /\ [][NextConc]_vars

(***************************************************************************)
(* The configuration is validated, possibly more than once.                *)
(***************************************************************************)
NextConfig == ValidateCall \/ BuildTarget

SpecConfig == Init /\ [][NextConfig]_vars

(***************************************************************************)
(* Properties.                                                             *)
(***************************************************************************)
IsPrefix(s, t) == Len(s) <= Len(t) /\ SubSeq(t, 1, Len(s)) = s

IsListCall(f) == f.pc # "idle" /\ f.op \in ListOps

\* The number of items pushed to the accumulator, page by page.
RECURSIVE SumSeq(_)
SumSeq(seq) == IF seq = <<>> THEN 0 ELSE Head(seq) + SumSeq(Tail(seq))

\* Every response of the call so far was a JSON page that carried its
\* total_count.
AllPagesCounted(f) == f.status # 204 /\ \A k \in 1..Len(f.totals) : IsSome(f.totals[k])

\* Every response of the call so far was a JSON page of the source, of the
\* requested size, that carried its total_count.
AllPagesJson(f) == AllPagesCounted(f) /\ ~f.capped

\* The operation run alone: every request answered at once with the
\* source's JSON page (up to MaxRequests requests, as in BodyJson).
RECURSIVE RunAlone(_)
RunAlone(f) ==
    IF f.pc = "await"
    THEN LET next == OnData(clearTimeout(f), RemoteJson(Val(f.req), f.remote))
         IN  IF Len(next.sent) <= MaxRequests THEN RunAlone(next) ELSE f
    ELSE f

Alone(f) == RunAlone(StartOp(IdleFrame, f.op, f.args, f.remote))

\* C1: every tool operation, whether it succeeds or fails, returns an
\* envelope with at least one text content item and never throws to its
\* caller.
C1_AlwaysEnvelope ==
    \A p \in Procs :
        LET f == frames[p]
        IN  /\ f.pc # "thrown"
            /\ f.pc = "returned" => Len(Val(f.result).content) >= 1

\* C2: with a non-negative page size, the offset of a list-all operation
\* strictly increases, by exactly the page size, every time a page has been
\* handled.
C2_OffsetStrictlyIncreases ==
    [][\A p \in Procs :
          (/\ IsListCall(frames[p])
           /\ frames[p].limit >= 0
           /\ frames[p].fpc = "body"
           /\ frames'[p].op = frames[p].op
           /\ Len(frames'[p].pages) = Len(frames[p].pages) + 1
           /\ IsSome(frames'[p].totals[Len(frames'[p].totals)]))
          => (/\ frames'[p].offset > frames[p].offset
              /\ frames'[p].offset = frames[p].offset + frames[p].limit)]_vars

\* C3: getProjectMemberships called with limit <= 0 fails before the first
\* page is requested: it has thrown and has issued no request.
C3_NonPositiveLimitRejected ==
    \A p \in Procs :
        LET f == frames[p]
        IN  (/\ f.pc # "idle"
             /\ f.op = "getProjectMemberships"
             /\ HasField(f.args, "limit")
             /\ f.args.limit <= 0)
            => (f.pc = "thrown" /\ Len(f.sent) = 0)

C5_RequestsAreCeil ==
    \A p \in Procs :
        LET f == frames[p]
        IN  (IsListCall(f) /\ f.pc = "returned" /\ AllPagesJson(f) /\ f.limit > 0)
            => Len(f.sent) = CeilDiv(Len(f.acc), f.limit)

\* C5 as amended: for p > 0 and n >= 0 a list-all operation never issues
\* more than max(1, ceil(n / p)) requests, and has issued exactly
\* max(1, ceil(items_returned / p)) when it returns.
C5_RequestsAreCeilAtLeastOne ==
    \A p \in Procs :
        LET f == frames[p]
        IN  (IsListCall(f) /\ f.limit > 0)
            => /\ ~f.capped => Len(f.sent) <= Max(1, CeilDiv(f.remote, f.limit))
               /\ (f.pc = "returned" /\ AllPagesJson(f))
                    => Len(f.sent) = Max(1, CeilDiv(Len(f.acc), f.limit))

C5_Witness ==
    \E p \in Procs :
        LET f == frames[p]
        IN  /\ IsListCall(f) /\ f.pc = "returned" /\ AllPagesJson(f)
            /\ f.remote = 0 /\ Len(f.sent) = 1

\* C6: against a source of n items serving the requested window,
\* getProjects collects the n items, each once and in source order, with
\* ceil(n / 100) requests (one for n = 0); for n = 250 these are 3 requests
\* returning 100, 100 and 50 items.
C6_ProjectsComplete ==
    \A p \in Procs :
        LET f == frames[p]
        IN  (f.op = "getProjects" /\ f.pc = "returned" /\ AllPagesJson(f))
            => /\ f.acc = [i \in 1..f.remote |-> Project(i)]
               /\ Len(f.sent) = Max(1, CeilDiv(f.remote, ProjectsPageLimit))
               /\ Len(f.pages) = Len(f.sent)
               /\ \A k \in 1..Len(f.pages) :
                     f.pages[k] = Min(ProjectsPageLimit,
                                      f.remote - (k - 1) * ProjectsPageLimit)
               /\ f.remote = 250 => f.pages = <<100, 100, 50>>

C6_Witness ==
    \E p \in Procs :
        LET f == frames[p]
        IN  /\ f.op = "getProjects" /\ f.pc = "returned" /\ AllPagesJson(f)
            /\ f.remote = 250 /\ Len(f.acc) = 250 /\ Len(f.sent) = 3

\* C7: when the timer elapses before the remote has responded, the
\* in-flight request is aborted and the call fails with the timeout error
\* and returns nothing; a request is aborted only by its own timer, so a
\* request of a later call starts unaborted with its own timer armed.
C7_TimeoutAbortsOnlyItsCall ==
    \A p \in Procs :
        LET f == frames[p]
        IN  /\ f.timer = "fired"
                => /\ f.aborted
                   /\ f.pc \in {"await", "thrown"}
                   /\ f.pc = "thrown" => f.raised = Some(TimeoutError)
            /\ f.aborted => f.timer = "fired"
            /\ (f.pc = "await" /\ f.fpc = "headers" /\ ~f.aborted)
                => (f.timer = "armed" /\ f.armed = 1)
            /\ f.raised = Some(TimeoutError) => f.timer = "fired"

C7_Witness ==
    /\ \E i \in 1..Len(history) : history[i] = "timeout"
    /\ \E p \in Procs :
          /\ frames[p].pc = "returned"
          /\ frames[p].status = 200
          /\ ~frames[p].aborted

C9_FailedPageFailsCall ==
    [][\A p \in Procs :
          LET f == frames[p]
              g == frames'[p]
          IN  /\ (IsListCall(f) /\ f.pc = "await" /\ g.sent # f.sent)
                    => /\ f.fpc = "body"
                       /\ Len(g.pages) = Len(f.pages) + 1
                       /\ Len(g.sent) = Len(f.sent) + 1
              /\ (IsListCall(f) /\ f.pc = "await" /\ g.pc = "thrown")
                    => /\ g.sent = f.sent
                       /\ Len(g.sent) = Len(g.pages) + 1
                       /\ g.pages = f.pages
                       /\ g.result = None
                       /\ g.fpc = "none"
                       /\ g.armed = 0
              /\ (IsListCall(f) /\ f.pc = "thrown")
                    => (g = f \/ g = IdleFrame)]_vars

C9_Witness ==
    \E p \in Procs :
        LET f == frames[p]
        IN  /\ IsListCall(f) /\ f.pc = "thrown"
            /\ Len(f.pages) = 2 /\ Len(f.sent) = 3

\* C10: a list-all operation running while another one is in flight on the
\* same client issues the requests and produces the result it produces
\* when run alone.
C10_ConcurrentAsAlone ==
    \A p \in Procs :
        LET f == frames[p]
        IN  IsListCall(f)
            => /\ ~f.capped => IsPrefix(f.sent, Alone(f).sent)
               /\ ~f.capped => IsPrefix(f.acc, Alone(f).acc)
               /\ (f.pc = "returned" /\ AllPagesJson(f))
                    => (f.result = Alone(f).result /\ f.sent = Alone(f).sent)

\* Both invocations are in the middle of their pagination at the same time.
C10_Witness ==
    /\ frames[1].pc = "await" /\ Len(frames[1].pages) >= 1
    /\ frames[2].pc = "await" /\ Len(frames[2].pages) >= 1
    /\ frames[1].limit # frames[2].limit

\* C11: once a fetchRedmine call has returned or thrown, on any of its paths,
\* the timer it started is no longer armed: the only armed timer of an
\* invocation is that of its request still waiting for response headers.
C11_TimerClearedOnExit ==
    \A p \in Procs :
        LET f == frames[p]
        IN  /\ f.armed = IF f.fpc = "headers" /\ f.timer = "armed" THEN 1 ELSE 0
            /\ f.fpc # "headers" => f.timer # "armed"
            /\ f.pc \in {"returned", "thrown"} => (f.armed = 0 /\ f.fpc = "none")

\* A call has exited on a path of its own: with JSON, without a JSON body,
\* with an error status, with a network error, with a timeout.
C11_Witness ==
    /\ Len(history) >= 1
    /\ \E p \in Procs :
          LET f == frames[p]
          IN  /\ f.pc = "thrown" /\ f.raised = Some(FetchFailed)
              /\ Len(f.pages) >= 1
              /\ f.timer = "cleared" /\ f.armed = 0

C13_LogTimeNeedsReference ==
    \A p \in Procs :
        LET f == frames[p]
        IN  (/\ f.pc # "idle" /\ f.op = "logTime"
             /\ ~HasField(f.args, "issue_id")
             /\ ~HasField(f.args, "project_id"))
            => /\ f.pc = "thrown"
               /\ f.sent = <<>>
               /\ f.armed = 0 /\ f.timer = "none"
               /\ f.result = None
               /\ f.raised \in {Some(HoursRequired), Some(ActivityRequired),
                                Some(ReferenceRequired)}
               /\ (TruthyNum(f.args, "hours") /\ TruthyNum(f.args, "activity_id"))
                    => f.raised = Some(ReferenceRequired)

C13_Witness ==
    \E p \in Procs :
        LET f == frames[p]
        IN  /\ f.op = "logTime" /\ f.pc = "thrown"
            /\ f.args = [hours |-> 1, activity_id |-> 9]
            /\ f.raised = Some(ReferenceRequired)
            /\ f.sent = <<>>

\* C14: in the request of getIssues and of getTimeEntries every optional
\* filter field of the argument schema that the caller supplied (with a
\* non-empty, non-zero value) is a query parameter of the same name with the
\* supplied value (the subject carrying its leading ~), and every field the
\* caller left out is not a query parameter.
C14_FiltersCopied ==
    \A p \in Procs :
        LET f == frames[p]
            shape == IF f.op = "getIssues" THEN getIssuesSchemaShape
                     ELSE getTimeEntriesSchemaShape
        IN  (f.op \in {"getIssues", "getTimeEntries"} /\ Len(f.sent) >= 1)
            => LET query == f.sent[1].query
               IN  \A k \in shape :
                     /\ (IF k = "limit" THEN TruthyNum(f.args, k) ELSE TruthyStr(f.args, k))
                          => /\ HasField(query, k)
                             /\ query[k] = IF f.op = "getIssues" /\ k = "subject"
                                            THEN <<"~">> \o f.args[k] ELSE f.args[k]
                     /\ ~HasField(f.args, k) => ~HasField(query, k)

\* C15: every field of the request body of createIssue and of updateIssue is
\* a field the caller supplied, with the value the caller supplied (for
\* createIssue's project_id: the number its decimal string denotes), or is
\* one of createIssue's priority/tracker/status defaults.
C15_BodyOnlySupplied ==
    \A p \in Procs :
        LET f == frames[p]
        IN  (f.op \in {"createIssue", "updateIssue"} /\ Len(f.sent) >= 1)
            => LET issueData == Val(f.sent[1].body).issue
               IN  \A k \in DOMAIN issueData :
                     IF ~HasField(f.args, k)
                     THEN /\ f.op = "createIssue"
                          /\ \/ k = "priority_id" /\ issueData[k] = DefaultPriorityId
                             \/ k = "tracker_id" /\ issueData[k] = DefaultTrackerId
                             \/ k = "status_id" /\ issueData[k] = DefaultStatusId
                     ELSE IF f.op = "createIssue" /\ k = "project_id"
                     THEN /\ f.args[k] # <<>>
                          /\ \A i \in 1..Len(f.args[k]) : IsDigit(f.args[k][i])
                          /\ issueData[k] = Some(ParseDigits(f.args[k], 0))
                     ELSE issueData[k] = f.args[k]

\* C16: createIssue sends priority_id 2, tracker_id 1 and status_id 1 exactly
\* for the fields the caller left out, and the caller's value, 0 included,
\* for the fields the caller supplied.
C16_CreateIssueDefaults ==
    \A p \in Procs :
        LET f == frames[p]
        IN  (f.op = "createIssue" /\ f.pc # "idle")
            => /\ Len(f.sent) >= 1
               /\ LET issueData == Val(f.sent[1].body).issue
                  IN  /\ issueData.priority_id =
                            IF HasField(f.args, "priority_id") THEN f.args.priority_id ELSE 2
                      /\ issueData.tracker_id =
                            IF HasField(f.args, "tracker_id") THEN f.args.tracker_id ELSE 1
                      /\ issueData.status_id =
                            IF HasField(f.args, "status_id") THEN f.args.status_id ELSE 1

C16_Witness ==
    \E p \in Procs :
        LET f == frames[p]
        IN  /\ f.op = "createIssue" /\ f.pc = "returned"
            /\ HasField(f.args, "priority_id") /\ f.args.priority_id = 0
            /\ ~HasField(f.args, "tracker_id")
            /\ Val(f.sent[1].body).issue.priority_id = 0
            /\ Val(f.sent[1].body).issue.tracker_id = 1
            /\ Val(f.sent[1].body).issue.status_id = 5

\* C17: for every non-empty subject filter s of getIssues the subject query
\* parameter is ~ followed by s, unchanged: in the parameters the operation
\* builds, and as the remote reads it back from the request URL.
C17_SubjectIsTildeS ==
    \A p \in Procs :
        LET f == frames[p]
        IN  (/\ f.op = "getIssues" /\ f.pc # "idle"
             /\ HasField(f.args, "subject") /\ f.args.subject # <<>>)
            => /\ Len(f.sent) = 1
               /\ HasField(f.sent[1].query, "subject")
               /\ f.sent[1].query.subject = <<"~">> \o f.args.subject
               /\ f.pc = "await" /\ f.fpc = "headers"
                    => decode(f.search.subject) = <<"~">> \o f.args.subject

C17_Witness ==
    \E p \in Procs :
        LET f == frames[p]
        IN  /\ f.op = "getIssues" /\ f.pc = "await" /\ f.fpc = "headers"
            /\ f.args = [subject |-> <<"%", "7", "E">>]
            /\ f.sent[1].query.subject = <<"~", "%", "7", "E">>
            /\ f.search.subject = <<"%", "7", "E", "%", "2", "5", "7", "E">>

\* C18: the mapping getProjects returns has one entry per name among the
\* (filtered) projects, and maps each name to the id of the last project of
\* that name in iteration order; [{A,1},{A,2}] yields {A: 2}.
C18_LastNameWins ==
    \A p \in Procs :
        LET f == frames[p]
        IN  (f.op = "getProjects" /\ f.pc = "returned")
            => LET filtered == filteredProjects(f.acc, f.args)
                   mapping == Val(f.result).content[1].text.json.projects
               IN  /\ DOMAIN mapping = {filtered[i].name : i \in 1..Len(filtered)}
                   /\ \A name \in DOMAIN mapping :
                         LET idx == {i \in 1..Len(filtered) : filtered[i].name = name}
                         IN  \E i \in idx : /\ mapping[name] = filtered[i].id
                                             /\ \A j \in idx : j <= i

C18_Witness ==
    \E p \in Procs :
        LET f == frames[p]
        IN  /\ f.op = "getProjects" /\ f.pc = "returned"
            /\ f.acc = << [id |-> 1, name |-> <<"A">>], [id |-> 2, name |-> <<"A">>] >>
            /\ Val(f.result).content[1].text.json.projects = [n \in {<<"A">>} |-> 2]

\* C19: getProjects filters by name after the pagination, on everything it
\* aggregated: the result holds exactly the projects whose lower-cased name
\* contains the lower-cased search term, from whichever page, and the page
\* requests are those of a call without a filter.
C19_FilterAfterAggregation ==
    \A p \in Procs :
        LET f == frames[p]
            term == IF HasField(f.args, "name") THEN toLowerCase(f.args.name) ELSE <<>>
        IN  /\ f.op = "getProjects"
                  => \A k \in 1..Len(f.sent) :
                        f.sent[k] = ProjectsRequest(ProjectsPageLimit,
                                                    (k - 1) * ProjectsPageLimit)
            /\ (f.op = "getProjects" /\ f.pc = "returned")
                  => LET json == Val(f.result).content[1].text.json
                         hits == {i \in 1..Len(f.acc) :
                                    includes(toLowerCase(f.acc[i].name), term)}
                     IN  /\ json.total_count = Cardinality(hits)
                         /\ DOMAIN json.projects = {f.acc[i].name : i \in hits}
                         /\ AllPagesJson(f)
                              => json.total_count =
                                    Cardinality({i \in 1..f.remote :
                                                   includes(toLowerCase(NameOf(i)), term)})

C19_Witness ==
    \E p \in Procs :
        LET f == frames[p]
        IN  /\ f.op = "getProjects" /\ f.pc = "returned" /\ AllPagesJson(f)
            /\ f.args = [name |-> <<"A", "b">>, limit |-> 1]
            /\ f.remote = 250 /\ f.pages = <<100, 100, 50>>
            /\ Val(f.result).content[1].text.json.total_count = 62
            /\ Val(f.result).content[1].text.json.projects = [n \in {<<"a", "B">>} |-> 247]

\* C20 as claimed: validate throws an error starting with 'Configuration
\* validation failed' when REDMINE_URL or REDMINE_API_KEY is missing, empty
\* or blank, and (the timeout being acceptable) returns a configuration
\* whose url and apiKey are the trimmed values when both are present and
\* the url is valid.
C20_RequiredOrTrimmed ==
    validated # None =>
        LET v == Val(validated)
            url == v.envVars.REDMINE_URL
            key == v.envVars.REDMINE_API_KEY
            timeout == v.envVars.REDMINE_TIMEOUT
            blank(o) == ~IsSome(o) \/ trim(Val(o)) = <<>>
            timeoutOk == \/ ~IsSome(timeout) \/ Val(timeout) = <<>>
                         \/ (IsSome(parseInt(Val(timeout))) /\ Val(parseInt(Val(timeout))) > 0)
        IN  /\ (blank(url) \/ blank(key))
                  => /\ v.kind = "thrown"
                     /\ Val(v.error).message[1] = "Configuration validation failed"
            /\ (~blank(url) /\ ~blank(key) /\ IsValidUrl(trim(Val(url))) /\ timeoutOk)
                  => /\ v.kind = "returned"
                     /\ Val(v.config).redmine.url = trim(Val(url))
                     /\ Val(v.config).redmine.apiKey = trim(Val(key))

\* C20 as amended: as above, except that the url of the configuration is
\* the trimmed REDMINE_URL without its trailing slash.
C20_RequiredOrNormalized ==
    validated # None =>
        LET v == Val(validated)
            url == v.envVars.REDMINE_URL
            key == v.envVars.REDMINE_API_KEY
            timeout == v.envVars.REDMINE_TIMEOUT
            blank(o) == ~IsSome(o) \/ trim(Val(o)) = <<>>
            timeoutOk == \/ ~IsSome(timeout) \/ Val(timeout) = <<>>
                         \/ (IsSome(parseInt(Val(timeout))) /\ Val(parseInt(Val(timeout))) > 0)
        IN  /\ (blank(url) \/ blank(key))
                  => /\ v.kind = "thrown"
                     /\ v.config = None
                     /\ Val(v.error).message[1] = "Configuration validation failed"
            /\ (~blank(url) /\ ~blank(key) /\ IsValidUrl(trim(Val(url))) /\ timeoutOk)
                  => LET t == trim(Val(url))
                     IN  /\ v.kind = "returned"
                         /\ Val(v.config).redmine.apiKey = trim(Val(key))
                         /\ Val(v.config).redmine.url =
                               IF t[Len(t)] = "/" THEN SubSeq(t, 1, Len(t) - 1) ELSE t

C20_Witness ==
    /\ validated # None
    /\ Val(validated).envVars = [REDMINE_URL |-> Some(<<" ", "o", "/">>),
                                 REDMINE_API_KEY |-> Some(<<" ", "k", " ">>),
                                 REDMINE_TIMEOUT |-> None]
    /\ Val(validated).kind = "returned"
    /\ Val(Val(validated).config).redmine.url = <<"o">>
    /\ Val(Val(validated).config).redmine.apiKey = <<"k">>

\* C21: given a REDMINE_URL that is present but is not a valid URL, validate
\* throws the configuration validation error, with the line
\* 'REDMINE_URL: must be a valid URL', and returns no configuration.
C21_InvalidUrlRejected ==
    validated # None =>
        LET v == Val(validated)
            url == v.envVars.REDMINE_URL
        IN  (/\ IsSome(url) /\ trim(Val(url)) # <<>>
             /\ ~IsValidUrl(removeTrailingSlash(trim(Val(url)))))
            => /\ v.kind = "thrown"
               /\ v.config = None
               /\ Val(v.error).message[1] = "Configuration validation failed"
               /\ \E i \in 1..(Len(Val(v.error).message) - 2) :
                     /\ Val(v.error).message[i] = "REDMINE_URL"
                     /\ Val(v.error).message[i + 2] = "must be a valid URL"

\* C22: the timeout of a returned configuration is 10000 when
\* REDMINE_TIMEOUT is unset (or empty), is the given number when that is a
\* positive number, and is positive in every case; validate throws when
\* REDMINE_TIMEOUT is set and is not a number or is not positive.
C22_TimeoutPositiveOrThrows ==
    validated # None =>
        LET v == Val(validated)
            timeout == v.envVars.REDMINE_TIMEOUT
            unset == ~IsSome(timeout) \/ Val(timeout) = <<>>
            str == trim(Val(timeout))
            digits == IF str # <<>> /\ Head(str) \in {"-", "+"} THEN Tail(str) ELSE str
            isNumber == digits # <<>> /\ \A i \in 1..Len(digits) : IsDigit(digits[i])
            positive == isNumber /\ Head(str) # "-" /\ ParseDigits(digits, 0) > 0
        IN  /\ (v.kind = "returned" /\ unset)
                  => Val(v.config).redmine.timeout = 10000
            /\ (v.kind = "returned" /\ ~unset /\ positive)
                  => Val(v.config).redmine.timeout = ParseDigits(digits, 0)
            /\ v.kind = "returned" => Val(v.config).redmine.timeout > 0
            /\ (~unset /\ ~positive) => v.kind = "thrown"

\* C23: the redmine.url of a configuration validate returns (for a valid
\* REDMINE_URL) does not end with a slash, and is the trimmed REDMINE_URL
\* without the slashes at its end.
C23_NoTrailingSlash ==
    validated # None =>
        LET v == Val(validated)
            str == trim(Val(v.envVars.REDMINE_URL))
            url == Val(v.config).redmine.url
        IN  (v.kind = "returned" /\ IsValidUrl(removeTrailingSlash(str)))
            => /\ url # <<>>
               /\ url[Len(url)] # "/"
               /\ IsPrefix(url, str)
               /\ \A i \in (Len(url) + 1)..Len(str) : str[i] = "/"

\* C24: the k-th page request of a list-all operation (k = 0, 1, 2, ...)
\* carries limit = pageSize and offset = k * pageSize, where pageSize is 100
\* unless the caller of getProjectMemberships gives a limit; a request is
\* issued only when every earlier response has been appended to the
\* accumulator, so at most one request is outstanding.
C24_PageRequestsInSequence ==
    \A p \in Procs :
        LET f == frames[p]
            pageSize == IF f.op = "getProjectMemberships" /\ HasField(f.args, "limit")
                        THEN f.args.limit ELSE 100
        IN  IsListCall(f)
            => /\ \A k \in 1..Len(f.sent) :
                     /\ f.sent[k].query.limit = pageSize
                     /\ f.sent[k].query.offset = (k - 1) * pageSize
               /\ Len(f.sent) = Len(f.pages) + (IF f.pc = "await" THEN 1 ELSE 0)
                    \/ (f.pc = "thrown" /\ Len(f.sent) = Len(f.pages) + 1)
               /\ Len(f.acc) = SumSeq(f.pages)
               /\ f.offset = (IF f.pc = "await" THEN Len(f.sent) - 1 ELSE Len(f.pages)) * pageSize

C24_Witness ==
    \E p \in Procs :
        LET f == frames[p]
        IN  /\ f.op = "getProjectMemberships" /\ f.pc = "await"
            /\ HasField(f.args, "limit") /\ f.args.limit = 2 /\ f.remote = 5
            /\ Len(f.sent) = 3 /\ f.pages = <<2, 2>>
            /\ f.sent[3].query = [limit |-> 2, offset |-> 4]

\* C25: the URL of a request is the configured base address followed by the
\* path: it begins with the whole base address, also when the base address
\* has a path prefix.
C25_UrlIsBasePlusPath ==
    target # None =>
        LET t == Val(target)
        IN  IsValidUrl(t.baseUrl)
            => /\ IsSome(t.url)
               /\ IsPrefix(t.baseUrl, Val(t.url))

\* C26: a fetchRedmine call does not outlive its timeout period: once the
\* period has elapsed the call is not pending any more, except for the
\* abort that the timer has just raised and that fetch() is delivering.
C26_CompletesWithinTimeout ==
    \A p \in Procs :
        LET f == frames[p]
        IN  (f.pc = "await" /\ (f.timer = "fired" \/ f.overdue))
            => (f.aborted /\ f.fpc = "headers")

\* The source items that the accumulator of a call does not hold.
MissingMembers(f) ==
    {i \in 1..f.remote : \A k \in 1..Len(f.acc) : f.acc[k] # Membership(i)}

\* C27: when the remote cuts a non-final page of getProjectMemberships below
\* the requested limit and reports the true total_count, no item is lost:
\* while the operation waits for a page, every item it still lacks lies at or
\* after the offset it requested (requests only move forward), and when it
\* returns, its result holds every source item exactly once.
C27_CappedPagesLoseNothing ==
    \A p \in Procs :
        LET f == frames[p]
        IN  (f.op = "getProjectMemberships" /\ f.capped /\ AllPagesCounted(f))
            => /\ f.pc = "await"
                    => \A i \in MissingMembers(f) : i > Val(f.req).query.offset
               /\ f.pc = "returned"
                    => f.acc = [k \in 1..f.remote |-> Membership(k)]

\* C28: every field of the update_issue schema that the caller supplies to
\* updateIssue, whatever its value, is in the PUT body under the issue key
\* with the supplied value.
C28_UpdateSendsSuppliedFields ==
    \A p \in Procs :
        LET f == frames[p]
        IN  (f.op = "updateIssue" /\ f.sent # <<>>)
            => LET issue == Val(f.sent[1].body).issue
               IN  \A k \in (DOMAIN f.args \cap updateIssueSchemaShape) \ {"issue_id"} :
                        HasField(issue, k) /\ issue[k] = f.args[k]

\* C29: in every result of getProjects, total_count equals the number of
\* entries of the returned projects mapping.
C29_TotalCountIsEntries ==
    \A p \in Procs :
        LET f == frames[p]
        IN  (f.op = "getProjects" /\ f.pc = "returned")
            => LET json == Val(f.result).content[1].text.json
               IN  json.total_count = Cardinality(DOMAIN json.projects)

\* C30: validate depends on its argument alone: after any earlier validate
\* calls a call returns or throws what it would on a fresh validator, leaves
\* the error list a fresh validator would leave, and reports no error that an
\* earlier call recorded.
C30_ValidateDependsOnArgumentAlone ==
    validated # None =>
        LET v == Val(validated)
            fresh == validateFrom(v.envVars, <<>>)
        IN  /\ v.kind = fresh.kind
            /\ v.config = fresh.config
            /\ v.error = fresh.error
            /\ errors = fresh.errors

\* The second call finds the error that the first call recorded after its
\* error check, and returns a configuration with an empty error list.
C30_Witness ==
    /\ validations = 2
    /\ validated # None
    /\ Len(Val(validated).before) = 1
    /\ Val(validated).before[1] = ConfigValidationError("REDMINE_URL", "must be a valid URL")
    /\ Val(validated).kind = "returned"
    /\ Val(validated).envVars.REDMINE_URL = Some(<<"o">>)
    /\ errors = <<>>

====
